---- MODULE Spec2Model ----
(***************************************************************************)
(* Dose-event scheduling pipeline (generateDoseEvents and its helpers).    *)
(*                                                                         *)
(* Representation choices:                                                 *)
(*  - Instants are epoch milliseconds measured from Date.UTC(y, m-1, d) of *)
(*    the horizon start date, so that instant 0 is UTC midnight of the     *)
(*    start date.  All arithmetic is otherwise in milliseconds, as in the  *)
(*    source.                                                              *)
(*  - A JS number that may be fractional is a record [int, half] standing  *)
(*    for int + (half ? 0.5 : 0).                                          *)
(*  - An optional value (x | null | undefined) is <<>> or <<x>>.           *)
(*  - A timestamp string is a record [form, ms]: form says which syntax    *)
(*    the string has, ms is the wall-clock reading (naive form) or the     *)
(*    absolute instant (zone-qualified form) it denotes.                   *)
(*  - A candidate carries a field ref, the index of the order it came      *)
(*    from; it stands for the identity of the JS object and is read by no  *)
(*    operation of the pipeline.                                           *)
(***************************************************************************)
EXTENDS Integers, Sequences, FiniteSets, TLC

MS_PER_MIN == 60000
MS_PER_DAY == 86400000
START_HOUR == 8
OVERLAP_WINDOW_MS == 60 * MS_PER_MIN

\* Bounds of the explored inputs.
MaxOrders == 2
MaxDays == 2

-----------------------------------------------------------------------------
(* JS numbers and generic helpers *)

Num(n) == [int |-> n, half |-> FALSE]
Half(n) == [int |-> n, half |-> TRUE]

\* Number.isInteger(x)
IsInteger(x) == ~x.half
\* x < k and x > k for an integer k
NumLt(x, k) == x.int < k
NumGt(x, k) == x.int > k \/ (x.int = k /\ x.half)

Abs(x) == IF x < 0 THEN -x ELSE x
Max(a, b) == IF a > b THEN a ELSE b
Min(a, b) == IF a < b THEN a ELSE b

\* Math.round(num / den) for den > 0: floor(x + 0.5)
RoundDiv(num, den) == (2 * num + den) \div (2 * den)

\* Array.prototype.sort, a stable sort; cmp[j][k] is the comparator's result
\* on (s[j], s[k]).
SortBy(s, cmp) ==
  LET n == Len(s)
      rank(k) == 1 + Cardinality({j \in 1..n :
                        \/ cmp[j][k] < 0
                        \/ (cmp[j][k] = 0 /\ j < k)})
  IN [p \in 1..n |-> s[CHOOSE k \in 1..n : rank(k) = p]]

\* String.prototype.localeCompare on the identifiers explored here, which
\* collate in the order listed.
Collation == <<"", "A", "B", "C">>
CollationRank(s) == CHOOSE k \in 1..Len(Collation) : Collation[k] = s
LocaleCompare(a, b) ==
  IF a = b THEN 0
  ELSE IF CollationRank(a) < CollationRank(b) THEN -1 ELSE 1

-----------------------------------------------------------------------------
(* Time arithmetic *)

WellFormedDate == "2026-01-15"
\* parseYmd throws when a component of the date is not a finite number
ParseYmdThrows(ymd) == ymd # WellFormedDate

\* formatOffset
formatOffset(minutes) ==
  LET sign == IF minutes >= 0 THEN "+" ELSE "-"
      abs == Abs(minutes)
  IN <<sign, abs \div 60, abs % 60>>

\* isIsoWithTz
isIsoWithTz(ts) == ts.form \in {"tz", "badtz"}

\* parseIsoInFixedOffset without the Number.isFinite test on Date.parse
ParseIsoErrorNoFiniteCheck(ts) ==
  IF isIsoWithTz(ts) THEN "ok"
  ELSE IF ts.form = "badnaive" THEN "invalid naive iso" ELSE "ok"

\* parseIsoInFixedOffset: the error it throws, or "ok"
ParseIsoError(ts) ==
  IF isIsoWithTz(ts)
  THEN IF ts.form = "badtz" THEN "invalid iso" ELSE "ok"
  ELSE IF ts.form = "badnaive" THEN "invalid naive iso" ELSE "ok"

\* parseIsoInFixedOffset: the instant it returns
parseIsoInFixedOffset(ts, offsetMinutes) ==
  IF isIsoWithTz(ts) THEN ts.ms
  ELSE ts.ms - offsetMinutes * MS_PER_MIN

\* localMidnightUtcMs
localMidnightUtcMs(offsetMinutes) == 0 - offsetMinutes * MS_PER_MIN

\* toIsoInFixedOffset: the rendered fields (calendar date as a day number
\* counted from the start date), seconds resolution
toIsoInFixedOffset(utcMs, offsetMinutes) ==
  LET localMs == utcMs + offsetMinutes * MS_PER_MIN
      inDay == localMs % MS_PER_DAY
  IN [date |-> localMs \div MS_PER_DAY,
      hh |-> inDay \div 3600000,
      mm |-> (inDay % 3600000) \div MS_PER_MIN,
      ss |-> (inDay % MS_PER_MIN) \div 1000,
      off |-> formatOffset(offsetMinutes)]

\* sha256Hex: a digest, taken to be collision free
sha256Hex(input) == <<"sha256", input>>

-----------------------------------------------------------------------------
(* Order validator *)

\* validateOrder without the upper bound on priority
validateOrderNoPriorityMax(o) ==
  IF o.order_id = "" THEN "order_id required"
  ELSE IF o.patient_id = "" THEN "patient_id required"
  ELSE IF ~IsInteger(o.tz_offset_minutes) THEN "tz_offset_minutes must be int"
  ELSE IF \/ ~IsInteger(o.frequency_per_day)
          \/ NumLt(o.frequency_per_day, 1)
          \/ NumGt(o.frequency_per_day, 6)
       THEN "frequency_per_day must be 1..6"
  ELSE IF ~IsInteger(o.priority) \/ NumLt(o.priority, 1)
       THEN "priority must be 1..5"
  ELSE IF ~IsInteger(o.window_minutes) \/ NumLt(o.window_minutes, 0)
       THEN "window_minutes must be non-negative int"
  ELSE "ok"

\* validateOrder: the message of the error it throws, or "ok"
validateOrder(o) ==
  IF o.order_id = "" THEN "order_id required"
  ELSE IF o.patient_id = "" THEN "patient_id required"
  ELSE IF ~IsInteger(o.tz_offset_minutes) THEN "tz_offset_minutes must be int"
  ELSE IF \/ ~IsInteger(o.frequency_per_day)
          \/ NumLt(o.frequency_per_day, 1)
          \/ NumGt(o.frequency_per_day, 6)
       THEN "frequency_per_day must be 1..6"
  ELSE IF \/ ~IsInteger(o.priority)
          \/ NumLt(o.priority, 1)
          \/ NumGt(o.priority, 5)
       THEN "priority must be 1..5"
  ELSE IF ~IsInteger(o.window_minutes) \/ NumLt(o.window_minutes, 0)
       THEN "window_minutes must be non-negative int"
  ELSE "ok"

\* the days check at the head of generateDoseEvents
DaysInvalid(d) == ~IsInteger(d) \/ NumLt(d, 1) \/ NumGt(d, 30)


-----------------------------------------------------------------------------
(* Occurrence generator: the locals of generateScheduledTimes for order o *)

globalStartUtc(o) == localMidnightUtcMs(o.tz_offset_minutes.int)
globalEndUtc(o, nDays) == globalStartUtc(o) + nDays * MS_PER_DAY
orderStartUtc(o) == parseIsoInFixedOffset(o.start_datetime, o.tz_offset_minutes.int)

effectiveStart(o) == Max(globalStartUtc(o), orderStartUtc(o))
\* Math.min(globalEndUtc, orderEndUtc), orderEndUtc being +Infinity when the
\* order has no end
effectiveEnd(o, nDays) ==
  IF o.end_datetime = <<>> THEN globalEndUtc(o, nDays)
  ELSE Min(globalEndUtc(o, nDays),
           parseIsoInFixedOffset(o.end_datetime[1], o.tz_offset_minutes.int))

\* the daily template anchored at local midnight instead of 08:00
firstCycleStartAtMidnight(o) == globalStartUtc(o)

firstCycleStart(o) == globalStartUtc(o) + START_HOUR * 60 * MS_PER_MIN
numCycles(nDays) == nDays + 1

\* tUtc of dose i of cycle c
DoseInstant(o, c, k) ==
  LET cycleStartUtc == firstCycleStart(o) + c * MS_PER_DAY
      minutesFromCycleStart == RoundDiv(k * 1440, o.frequency_per_day.int)
  IN cycleStartUtc + minutesFromCycleStart * MS_PER_MIN

\* the clip test against the horizon end only, the order's end ignored
InEffectiveWindowNoOrderEnd(tUtc, o, nDays) ==
  tUtc >= effectiveStart(o) /\ tUtc <= globalEndUtc(o, nDays)

\* the clip test of the inner loop
InEffectiveWindow(tUtc, o, nDays) ==
  tUtc >= effectiveStart(o) /\ tUtc <= effectiveEnd(o, nDays)

\* the ScheduledDose pushed for instant tUtc of the order at index n
MakeDose(o, n, tUtc) ==
  [orderId |-> o.order_id,
   patientId |-> o.patient_id,
   group |-> o.do_not_overlap_group,
   priority |-> o.priority.int,
   utcMs |-> tUtc,
   tzOffset |-> o.tz_offset_minutes.int,
   windowMs |-> o.window_minutes.int * MS_PER_MIN,
   ref |-> n]

\* the error thrown by the parsing at the head of generateScheduledTimes,
\* or "ok"
GenError(startDate, o) ==
  IF ParseYmdThrows(startDate) THEN "invalid start_date"
  ELSE IF ParseIsoError(o.start_datetime) # "ok" THEN ParseIsoError(o.start_datetime)
  ELSE IF o.end_datetime # <<>> /\ ParseIsoError(o.end_datetime[1]) # "ok"
       THEN ParseIsoError(o.end_datetime[1])
  ELSE "ok"

\* the closing filter: first occurrence of each orderId|utcMs key
DedupDoses(doses) ==
  LET first(k) == \A j \in 1..(k - 1) :
                    <<doses[j].orderId, doses[j].utcMs>> # <<doses[k].orderId, doses[k].utcMs>>
      idxs == {k \in 1..Len(doses) : first(k)}
      RECURSIVE pick(_)
      pick(k) == IF k > Len(doses) THEN <<>>
                 ELSE (IF k \in idxs THEN <<doses[k]>> ELSE <<>>) \o pick(k + 1)
  IN pick(1)

-----------------------------------------------------------------------------
(* Conflict resolver *)

\* !d.group
NoGroup(d) == d.group = <<>> \/ d.group[1] = ""
HasGroup(d) == ~NoGroup(d)

\* the byKey map key
GroupKey(d) == d.patientId \o "::" \o d.group[1]

\* the comparator of groupDoses.sort
GroupCmp(a, b) ==
  IF a.priority # b.priority THEN b.priority - a.priority
  ELSE IF a.orderId # b.orderId THEN LocaleCompare(a.orderId, b.orderId)
  ELSE a.utcMs - b.utcMs

\* the neighbourhood scan looking at later minutes only
HasConflictForwardOnly(d, keptByMinute) ==
  LET minute == d.utcMs \div MS_PER_MIN
  IN \E m \in minute..(minute + 60) :
        /\ m \in DOMAIN keptByMinute
        /\ Abs(d.utcMs - keptByMinute[m].utcMs) < OVERLAP_WINDOW_MS

\* the neighbourhood scan over keptByMinute
HasConflict(d, keptByMinute) ==
  LET minute == d.utcMs \div MS_PER_MIN
  IN \E m \in (minute - 60)..(minute + 60) :
        /\ m \in DOMAIN keptByMinute
        /\ Abs(d.utcMs - keptByMinute[m].utcMs) < OVERLAP_WINDOW_MS

\* the greedy scan of one sorted group from position k on: the doses kept
RECURSIVE ScanGroup(_, _, _)
ScanGroup(groupDoses, k, keptByMinute) ==
  IF k > Len(groupDoses) THEN <<>>
  ELSE LET d == groupDoses[k]
           minute == d.utcMs \div MS_PER_MIN
       IN IF HasConflict(d, keptByMinute)
          THEN ScanGroup(groupDoses, k + 1, keptByMinute)
          ELSE <<d>> \o ScanGroup(groupDoses, k + 1,
                 [m \in (DOMAIN keptByMinute) \cup {minute} |->
                    IF m = minute THEN d ELSE keptByMinute[m]])

\* resolveOverlaps
resolveOverlaps(doses) ==
  LET passthrough == SelectSeq(doses, NoGroup)
      grouped == SelectSeq(doses, HasGroup)
      \* keys of byKey in insertion order
      newKey(k) == \A j \in 1..(k - 1) : GroupKey(grouped[j]) # GroupKey(grouped[k])
      RECURSIVE groupsFrom(_)
      groupsFrom(k) ==
        IF k > Len(grouped) THEN <<>>
        ELSE IF newKey(k)
             THEN LET key == GroupKey(grouped[k])
                      sameKey(d) == GroupKey(d) = key
                      members == SelectSeq(grouped, sameKey)
                      groupDoses == SortBy(members,
                        [a \in 1..Len(members) |-> [b \in 1..Len(members) |->
                           GroupCmp(members[a], members[b])]])
                  IN ScanGroup(groupDoses, 1, <<>>) \o groupsFrom(k + 1)
             ELSE groupsFrom(k + 1)
  IN passthrough \o groupsFrom(1)

-----------------------------------------------------------------------------
(* Event assembler *)

\* the comparator of winners.sort comparing local wall-clock readings
WinnerCmpLocalTime(a, b) ==
  LET la == a.utcMs + a.tzOffset * MS_PER_MIN
      lb == b.utcMs + b.tzOffset * MS_PER_MIN
  IN IF la # lb THEN la - lb
     ELSE LocaleCompare(a.orderId, b.orderId)

\* the comparator of winners.sort
WinnerCmp(a, b) ==
  IF a.utcMs # b.utcMs THEN a.utcMs - b.utcMs
  ELSE LocaleCompare(a.orderId, b.orderId)

\* the DoseEvent made of a winner
MakeEvent(d) ==
  LET scheduled == toIsoInFixedOffset(d.utcMs, d.tzOffset)
  IN [event_id |-> sha256Hex(<<d.orderId, "|", scheduled>>),
      order_id |-> d.orderId,
      scheduled_time |-> scheduled,
      status |-> "SCHEDULED"]

-----------------------------------------------------------------------------
(* The call generateDoseEvents({start_date, days, orders}) as a state machine *)

VARIABLES
  start_date,  \* input.start_date
  days,        \* input.days
  orders,      \* input.orders
  pc,          \* position of the call
  idx,         \* index of the order the current loop is at
  cycleIdx,    \* generateScheduledTimes: outer loop counter
  i,           \* generateScheduledTimes: inner loop counter
  out,         \* generateScheduledTimes: out
  allDoses,    \* generateDoseEvents: allDoses
  winners,     \* generateDoseEvents: winners
  events,      \* the list returned
  error        \* message of the error thrown, "" when none

vars == <<start_date, days, orders, pc, idx, cycleIdx, i, out, allDoses,
          winners, events, error>>
inputs == <<start_date, days, orders>>

Naive(ms) == [form |-> "naive", ms |-> ms]
WithTz(ms) == [form |-> "tz", ms |-> ms]
HourMs == 60 * MS_PER_MIN

BaseOrder ==
  [order_id |-> "A", patient_id |-> "p", tz_offset_minutes |-> Num(0),
   start_datetime |-> Naive(0), end_datetime |-> <<>>,
   frequency_per_day |-> Num(1), window_minutes |-> Num(0),
   do_not_overlap_group |-> <<>>, priority |-> Num(1)]

\* Orders exercising the validator and the timestamp parser.
ValidationOrders ==
  { BaseOrder,
    [BaseOrder EXCEPT !.order_id = "B", !.priority = Num(5), !.frequency_per_day = Num(6)],
    [BaseOrder EXCEPT !.order_id = ""],
    [BaseOrder EXCEPT !.patient_id = ""],
    [BaseOrder EXCEPT !.tz_offset_minutes = Half(0)],
    [BaseOrder EXCEPT !.frequency_per_day = Num(0)],
    [BaseOrder EXCEPT !.frequency_per_day = Num(7)],
    [BaseOrder EXCEPT !.frequency_per_day = Half(2)],
    [BaseOrder EXCEPT !.priority = Num(0)],
    [BaseOrder EXCEPT !.priority = Num(6)],
    [BaseOrder EXCEPT !.priority = Half(2)],
    [BaseOrder EXCEPT !.window_minutes = Num(-1)],
    [BaseOrder EXCEPT !.window_minutes = Half(5)],
    [BaseOrder EXCEPT !.frequency_per_day = Num(7), !.priority = Num(6)],
    [BaseOrder EXCEPT !.start_datetime = [form |-> "badnaive", ms |-> 0]],
    [BaseOrder EXCEPT !.start_datetime = [form |-> "badtz", ms |-> 0]],
    [BaseOrder EXCEPT !.end_datetime = <<[form |-> "badnaive", ms |-> 0]>>] }

\* Orders exercising the occurrence generator.
GenerationOrders ==
  { [BaseOrder EXCEPT !.tz_offset_minutes = Num(off),
                      !.frequency_per_day = Num(f),
                      !.start_datetime = s,
                      !.end_datetime = e] :
      off \in {-840, -30, 0, 60, 840},
      f \in 1..6,
      s \in {Naive(0), Naive(8 * HourMs + 30000), WithTz(20 * HourMs), Naive(32 * HourMs)},
      e \in {<<>>, <<Naive(8 * HourMs)>>, <<Naive(44 * HourMs)>>} }

\* Orders exercising the conflict resolver.
ResolutionOrders ==
  { [BaseOrder EXCEPT !.order_id = id, !.priority = Num(p),
                      !.tz_offset_minutes = Num(off),
                      !.frequency_per_day = Num(f),
                      !.do_not_overlap_group = <<"h">>] :
      id \in {"A", "B"}, p \in {1, 2}, off \in {-30, 0, 60}, f \in {1, 3} }
  \cup
  { [BaseOrder EXCEPT !.order_id = id, !.priority = Num(p),
                      !.patient_id = pat,
                      !.do_not_overlap_group = g] :
      id \in {"A", "B"}, p \in {1, 2}, pat \in {"p", "p::g"},
      g \in {<<>>, <<"h">>, <<"g::h">>} }
  \cup
  { [BaseOrder EXCEPT !.do_not_overlap_group = <<"">>] }

SeqsUpTo(S, n) == UNION {[1..k -> S] : k \in 0..n}

Init ==
  /\ \/ /\ start_date \in {WellFormedDate, "2026-01-1x"}
        /\ days \in {Num(0), Num(1), Half(1), Num(31)}
        /\ orders \in SeqsUpTo(ValidationOrders, MaxOrders)
     \/ /\ start_date = WellFormedDate
        /\ days = Num(30)
        /\ orders = <<>>
     \/ /\ start_date = WellFormedDate
        /\ days \in {Num(n) : n \in 1..MaxDays}
        /\ orders \in [1..1 -> GenerationOrders]
     \/ /\ start_date = WellFormedDate
        /\ days = Num(1)
        /\ orders \in SeqsUpTo(ResolutionOrders, MaxOrders)
  /\ pc = "start"
  /\ idx = 0
  /\ cycleIdx = 0
  /\ i = 0
  /\ out = <<>>
  /\ allDoses = <<>>
  /\ winners = <<>>
  /\ events = <<>>
  /\ error = ""

\* throw new Error(msg) out of generateDoseEvents
Throw(msg) ==
  /\ pc' = "failed"
  /\ error' = msg

\* the days check
CheckDays ==
  /\ pc = "start"
  /\ IF DaysInvalid(days)
     THEN /\ Throw("days must be 1..30")
          /\ UNCHANGED idx
     ELSE /\ pc' = "validate"
          /\ idx' = 1
          /\ UNCHANGED error
  /\ UNCHANGED <<inputs, cycleIdx, i, out, allDoses, winners, events>>

\* one iteration of: for (const o of orders) validateOrder(o)
ValidateStep ==
  /\ pc = "validate"
  /\ idx <= Len(orders)
  /\ IF validateOrder(orders[idx]) # "ok"
     THEN /\ Throw(validateOrder(orders[idx]))
          /\ UNCHANGED idx
     ELSE /\ idx' = idx + 1
          /\ UNCHANGED <<pc, error>>
  /\ UNCHANGED <<inputs, cycleIdx, i, out, allDoses, winners, events>>

\* the validation loop is over; the generation loop begins
ValidateDone ==
  /\ pc = "validate"
  /\ idx > Len(orders)
  /\ pc' = "generate"
  /\ idx' = 1
  /\ UNCHANGED <<inputs, cycleIdx, i, out, allDoses, winners, events, error>>

\* generateScheduledTimes(start_date, days, orders[idx]) up to its loops
GenBegin ==
  /\ pc = "generate"
  /\ idx <= Len(orders)
  /\ LET o == orders[idx] IN
     IF GenError(start_date, o) # "ok"
     THEN /\ Throw(GenError(start_date, o))
          /\ UNCHANGED <<idx, cycleIdx, i, out, allDoses>>
     ELSE IF effectiveStart(o) > effectiveEnd(o, days.int)
     THEN \* return []
          /\ idx' = idx + 1
          /\ UNCHANGED <<pc, error, cycleIdx, i, out, allDoses>>
     ELSE /\ pc' = "cycle"
          /\ cycleIdx' = 0
          /\ i' = 0
          /\ out' = <<>>
          /\ UNCHANGED <<idx, error, allDoses>>
  /\ UNCHANGED <<inputs, winners, events>>

\* one iteration of the inner loop of generateScheduledTimes
GenDose ==
  /\ pc = "cycle"
  /\ cycleIdx < numCycles(days.int)
  /\ LET o == orders[idx]
         tUtc == DoseInstant(o, cycleIdx, i)
     IN /\ out' = IF InEffectiveWindow(tUtc, o, days.int)
                  THEN Append(out, MakeDose(o, idx, tUtc))
                  ELSE out
        /\ IF i + 1 < o.frequency_per_day.int
           THEN i' = i + 1 /\ UNCHANGED cycleIdx
           ELSE i' = 0 /\ cycleIdx' = cycleIdx + 1
  /\ UNCHANGED <<inputs, pc, idx, allDoses, winners, events, error>>

\* the loops are over: filter, return, and push onto allDoses
GenEnd ==
  /\ pc = "cycle"
  /\ cycleIdx = numCycles(days.int)
  /\ allDoses' = allDoses \o DedupDoses(out)
  /\ idx' = idx + 1
  /\ pc' = "generate"
  /\ UNCHANGED <<inputs, cycleIdx, i, out, winners, events, error>>

\* const winners = resolveOverlaps(allDoses)
Resolve ==
  /\ pc = "generate"
  /\ idx > Len(orders)
  /\ winners' = resolveOverlaps(allDoses)
  /\ pc' = "assemble"
  /\ UNCHANGED <<inputs, idx, cycleIdx, i, out, allDoses, events, error>>

\* winners.sort(...), winners.map(...), return events
Assemble ==
  /\ pc = "assemble"
  /\ LET sorted == SortBy(winners,
           [a \in 1..Len(winners) |-> [b \in 1..Len(winners) |->
              WinnerCmp(winners[a], winners[b])]])
     IN /\ winners' = sorted
        /\ events' = [k \in 1..Len(sorted) |-> MakeEvent(sorted[k])]
  /\ pc' = "done"
  /\ UNCHANGED <<inputs, idx, cycleIdx, i, out, allDoses, error>>

Next ==
  \/ CheckDays
  \/ ValidateStep
  \/ ValidateDone
  \/ GenBegin
  \/ GenDose
  \/ GenEnd
  \/ Resolve
  \/ Assemble

Spec == Init /\ [][Next]_vars

TypeOK ==
  /\ pc \in {"start", "validate", "generate", "cycle", "assemble", "done", "failed"}
  /\ (pc = "failed") = (error # "")
  /\ pc # "done" => events = <<>>

-----------------------------------------------------------------------------
(* Vocabulary of the properties *)

Range(s) == {s[k] : k \in 1..Len(s)}

Resolved == pc \in {"assemble", "done"}

\* a candidate that carries a mutual-exclusion group name
Named(d) == d.group # <<>> /\ d.group[1] # ""
SameGroup(a, b) ==
  /\ Named(a) /\ Named(b)
  /\ a.patientId = b.patientId
  /\ a.group[1] = b.group[1]
Within60(a, b) == Abs(a.utcMs - b.utcMs) < 60 * 60 * 1000

\* candidates generated but not accepted
Rejected == {d \in Range(allDoses) : d \notin Range(winners)}

\* (priority descending, order id ascending, instant ascending): a strictly
\* before b
SortsStrictlyEarlier(a, b) ==
  \/ a.priority > b.priority
  \/ a.priority = b.priority /\ CollationRank(a.orderId) < CollationRank(b.orderId)
  \/ a.priority = b.priority /\ a.orderId = b.orderId /\ a.utcMs < b.utcMs

\* the field-range violations of an order, by message
FieldViolations(o) ==
  (IF o.order_id = "" THEN {"order_id required"} ELSE {})
  \cup (IF o.patient_id = "" THEN {"patient_id required"} ELSE {})
  \cup (IF o.tz_offset_minutes.half THEN {"tz_offset_minutes must be int"} ELSE {})
  \cup (IF o.frequency_per_day.half \/ o.frequency_per_day.int \notin 1..6
        THEN {"frequency_per_day must be 1..6"} ELSE {})
  \cup (IF o.priority.half \/ o.priority.int \notin 1..5
        THEN {"priority must be 1..5"} ELSE {})
  \cup (IF o.window_minutes.half \/ o.window_minutes.int < 0
        THEN {"window_minutes must be non-negative int"} ELSE {})

\* the unparseable timestamps of an order, by message
Unparseable(ts) == ts.form \in {"badnaive", "badtz"}
TimestampViolations(o) ==
  (IF Unparseable(o.start_datetime)
   THEN {IF o.start_datetime.form = "badtz" THEN "invalid iso" ELSE "invalid naive iso"}
   ELSE {})
  \cup (IF o.end_datetime # <<>> /\ Unparseable(o.end_datetime[1])
        THEN {IF o.end_datetime[1].form = "badtz" THEN "invalid iso" ELSE "invalid naive iso"}
        ELSE {})

DaysOutOfRange == days.half \/ days.int < 1 \/ days.int > 30

FieldInvalid == {n \in 1..Len(orders) : FieldViolations(orders[n]) # {}}
TimestampInvalid == {n \in 1..Len(orders) : TimestampViolations(orders[n]) # {}}
First(S) == CHOOSE n \in S : \A m \in S : n <= m

-----------------------------------------------------------------------------
\* C1: any two distinct accepted candidates of the same patient and the same
\* mutual-exclusion group name have instants at least 60 minutes apart
\* (exactly 60 minutes apart is allowed).
C1_AcceptedAtLeast60Apart ==
  Resolved =>
    \A k, j \in 1..Len(winners) :
      (k # j /\ SameGroup(winners[k], winners[j]))
        => Abs(winners[k].utcMs - winners[j].utcMs) >= 60 * 60 * 1000

C1_Witness ==
  /\ pc = "done"
  /\ \E k, j \in 1..Len(winners) :
       /\ k # j
       /\ SameGroup(winners[k], winners[j])
       /\ Abs(winners[k].utcMs - winners[j].utcMs) = 60 * 60 * 1000

\* C2: every rejected candidate has an accepted candidate of the same patient
\* and group, less than 60 minutes away, whose (priority descending, order id
\* ascending, instant ascending) tuple sorts strictly earlier.
C2_PriorityDominance ==
  Resolved =>
    \A d \in Rejected :
      \E w \in Range(winners) :
        /\ SameGroup(w, d)
        /\ Within60(w, d)
        /\ SortsStrictlyEarlier(w, d)

\* C3: in every (patient, group) the order ranking first (highest priority,
\* then smallest order id) keeps all its candidates, and every candidate of
\* another order of that group less than 60 minutes from one of them is
\* dropped.
C3_FirstRankedOrderWins ==
  pc = "done" =>
    \A n \in 1..Len(orders) :
      LET mine == {d \in Range(allDoses) : d.ref = n}
          rivals == {d \in Range(allDoses) :
                       d.ref # n /\ \E e \in mine : SameGroup(d, e)}
          ranksFirst ==
            \A r \in rivals :
              \/ orders[n].priority.int > r.priority
              \/ /\ orders[n].priority.int = r.priority
                 /\ CollationRank(orders[n].order_id) < CollationRank(r.orderId)
      IN ((\E e \in mine : Named(e)) /\ ranksFirst) =>
           /\ \A e \in mine : e \in Range(winners)
           /\ \A r \in rivals :
                (\E e \in mine : Within60(r, e)) => r \notin Range(winners)

\* C4 as stated: the error reported is that of the first violating order in
\* input-list order, whether its violation is a field range or a timestamp.
C4_FirstViolatingOrderReported ==
  (pc = "failed" /\ ~DaysOutOfRange /\ start_date = WellFormedDate) =>
    LET n == First(FieldInvalid \cup TimestampInvalid)
    IN error \in FieldViolations(orders[n]) \cup TimestampViolations(orders[n])

\* C4 amended: with valid days and a well-formed start date, a call holding
\* any violation returns no events; the error is that of the first order in
\* list order failing a field-range check when some order fails one, and
\* otherwise that of the first order in list order with an unparseable
\* timestamp.
C4_RangeErrorsBeforeTimestampErrors ==
  (~DaysOutOfRange /\ start_date = WellFormedDate) =>
    /\ (FieldInvalid \cup TimestampInvalid # {}) => (pc # "done" /\ events = <<>>)
    /\ pc = "failed" =>
         IF FieldInvalid # {}
         THEN error \in FieldViolations(orders[First(FieldInvalid)])
         ELSE error \in TimestampViolations(orders[First(TimestampInvalid)])

C4_Witness ==
  /\ pc = "failed"
  /\ ~DaysOutOfRange
  /\ Len(orders) = 2
  /\ TimestampViolations(orders[1]) # {}
  /\ FieldViolations(orders[1]) = {}
  /\ error \in FieldViolations(orders[2])

\* C5: invalid days fails with the days error before any order is validated
\* or processed; with valid days and some order violating a field range the
\* call fails with an error naming a violated field of the first invalid
\* order in list order, and produces no events.
C5_DaysThenFirstInvalidOrder ==
  /\ DaysOutOfRange =>
       /\ pc \in {"start", "failed"}
       /\ idx = 0 /\ allDoses = <<>> /\ events = <<>>
       /\ pc = "failed" => error = "days must be 1..30"
  /\ (~DaysOutOfRange /\ FieldInvalid # {}) =>
       /\ pc \in {"start", "validate", "failed"}
       /\ idx <= First(FieldInvalid)
       /\ allDoses = <<>> /\ events = <<>>
       /\ pc = "failed" => error \in FieldViolations(orders[First(FieldInvalid)])

C5_Witness ==
  /\ pc = "failed"
  /\ ~DaysOutOfRange
  /\ Len(orders) = 2
  /\ FieldViolations(orders[1]) = {}
  /\ "priority must be 1..5" \in FieldViolations(orders[2])
  /\ error = "priority must be 1..5"

\* C6: no two events of one output list have the same event identifier.
C6_EventIdsUnique ==
  pc = "done" =>
    \A k, j \in 1..Len(events) :
      k # j => events[k].event_id # events[j].event_id

\* C7: a candidate is rejected only because of an accepted candidate with the
\* same patient identifier and the same group name; candidates without a
\* group name are always kept.
C7_RejectionStaysInGroup ==
  Resolved =>
    \A d \in Rejected :
      /\ Named(d)
      /\ \E w \in Range(winners) : SameGroup(w, d) /\ Within60(w, d)

-----------------------------------------------------------------------------
\* what a rendered timestamp denotes
OffsetMinutesOf(off) == (IF off[1] = "-" THEN -1 ELSE 1) * (off[2] * 60 + off[3])
InstantOf(iso) ==
  iso.date * 86400000 + iso.hh * 3600000 + iso.mm * 60000 + iso.ss * 1000
    - OffsetMinutesOf(iso.off) * 60000

\* string order of two rendered timestamps ("+" sorts before "-")
LexLess(a, b) ==
  \E k \in 1..Len(a) :
    /\ \A j \in 1..(k - 1) : a[j] = b[j]
    /\ a[k] < b[k]
IsoFields(iso) ==
  <<iso.date, iso.hh, iso.mm, iso.ss, IF iso.off[1] = "+" THEN 0 ELSE 1,
    iso.off[2], iso.off[3]>>
IsoStringLess(a, b) == LexLess(IsoFields(a), IsoFields(b))

\* C8: the returned list is sorted by absolute instant ascending, ties by
\* order identifier ascending, also across different UTC offsets.
C8_OutputSorted ==
  pc = "done" =>
    \A k, j \in 1..Len(events) :
      k < j =>
        LET tk == InstantOf(events[k].scheduled_time)
            tj == InstantOf(events[j].scheduled_time)
        IN /\ tk <= tj
           /\ tk = tj =>
                CollationRank(events[k].order_id) <= CollationRank(events[j].order_id)

C8_Witness ==
  /\ pc = "done"
  /\ \E k, j \in 1..Len(events) :
       /\ k < j
       /\ events[k].scheduled_time.off # events[j].scheduled_time.off
       /\ InstantOf(events[k].scheduled_time) < InstantOf(events[j].scheduled_time)
       /\ IsoStringLess(events[j].scheduled_time, events[k].scheduled_time)

-----------------------------------------------------------------------------
\* the window of the claim: horizon and order windows of order o
HorizonStart(o) == 0 - o.tz_offset_minutes.int * 60000
HorizonEnd(o) == HorizonStart(o) + days.int * 24 * 3600000
InstantOfInput(ts, o) ==
  IF ts.form = "naive" THEN ts.ms - o.tz_offset_minutes.int * 60000 ELSE ts.ms
WindowLo(o) ==
  LET os == InstantOfInput(o.start_datetime, o)
  IN IF os > HorizonStart(o) THEN os ELSE HorizonStart(o)
WindowHi(o) ==
  IF o.end_datetime = <<>> THEN HorizonEnd(o)
  ELSE LET oe == InstantOfInput(o.end_datetime[1], o)
       IN IF oe < HorizonEnd(o) THEN oe ELSE HorizonEnd(o)

Emitted == Range(out) \cup Range(allDoses)

\* C9: every emitted candidate t of an order satisfies
\* max(horizon start, order start) <= t <= min(horizon end, order end), and
\* an order whose window is empty contributes no candidate.
C9_CandidatesInsideEffectiveWindow ==
  \A d \in Emitted :
    LET o == orders[d.ref]
    IN /\ WindowLo(o) <= d.utcMs
       /\ d.utcMs <= WindowHi(o)
       /\ WindowLo(o) <= WindowHi(o)

C9_Witness ==
  /\ pc = "done"
  /\ \E d \in Range(allDoses) :
       /\ orders[d.ref].end_datetime # <<>>
       /\ d.utcMs = WindowHi(orders[d.ref])
       /\ d.utcMs < HorizonEnd(orders[d.ref])

\* C10: the cycle with index = days never contributes a candidate.
C10_ExtraCycleEmitsNothing ==
  [][(pc = "cycle" /\ cycleIdx = days.int) => out' = out]_vars

C10_Witness ==
  /\ pc = "cycle"
  /\ cycleIdx = days.int + 1
  /\ out # <<>>
  /\ orders[idx].tz_offset_minutes.int = 840
  /\ orders[idx].frequency_per_day.int = 6
  /\ orders[idx].end_datetime = <<>>

====
